---- MODULE Spec2Model ----
(***************************************************************************)
(* Model of ipam/tracker/awsvpc.go: AWSVPCTracker.HandleUpdate keeps the   *)
(* AWS VPC route table and the host route table in step with the address   *)
(* ranges owned by a peer.  The two route tables are external stores; the  *)
(* tracker reaches them only through create/delete route calls, each of    *)
(* which may fail.                                                         *)
(***************************************************************************)
EXTENDS Integers, Sequences, FiniteSets, TLC

\* ---------------------------------------------------------------- bounds
\* Addresses are 0 .. MaxAddr-1; a range [Start, End) has End <= MaxAddr.
MaxAddr == 3
\* Largest number of ranges in one prevRanges / currRanges argument.
MaxRanges == 2
\* Largest length of a list given to removeCommon when it is run on its own.
MaxListLen == 2

\* Width of an address in bits (address.Address is an IPv4 address).
cidrMaxPrefixLen == 32

VARIABLES
    cloud,       \* AWS VPC route table: set of destination CIDR strings
    host,        \* host route table: set of destination IPNets (scope link)
    prevRanges,  \* HandleUpdate argument
    currRanges,  \* HandleUpdate argument
    prev,        \* local of HandleUpdate: CIDRs only in prevRanges
    curr,        \* local of HandleUpdate: CIDRs only in currRanges
    i,           \* index of the loop HandleUpdate is in (1-based)
    pc,          \* position of HandleUpdate
    err,         \* value returned by HandleUpdate
    issued,      \* backend calls issued by the invocation in flight, in order
    cloud0,      \* cloud table when the invocation in flight was entered
    host0,       \* host table when the invocation in flight was entered
    healthy,     \* TRUE when the backends inject no failure in this invocation
    retrying,    \* TRUE when the invocation in flight repeats a failed one
    tracker,     \* the AWSVPCTracker: instanceID, routeTableID, linkIndex
    rc,          \* a run of removeCommon on its own: inputs, pointers, outputs
    hp           \* a host route call on its own: string, table, result

vars == <<cloud, host, prevRanges, currRanges, prev, curr, i, pc, err,
          issued, cloud0, host0, healthy, retrying, tracker, rc, hp>>

\* ------------------------------------------------------- address package
\* address.Range: [Start, End), End exclusive.
Range == [Start : 0..(MaxAddr - 1), End : 1..MaxAddr]

ValidRange(r) == r.Start < r.End

\* A prevRanges / currRanges value: sorted ascending, non-overlapping.
RECURSIVE SortedDisjoint(_)
SortedDisjoint(rs) ==
    IF Len(rs) <= 1 THEN TRUE
    ELSE rs[1].End <= rs[2].Start /\ SortedDisjoint(Tail(rs))

RangeSeqsOfLen(n) ==
    { rs \in [1..n -> Range] :
        (\A k \in 1..n : ValidRange(rs[k])) /\ SortedDisjoint(rs) }

RangeSets == UNION { RangeSeqsOfLen(n) : n \in 0..MaxRanges }

\* Largest k such that the block of 2^k addresses at start is aligned and
\* lies within [start, end).
RECURSIVE BlockBits(_, _, _)
BlockBits(start, end, k) ==
    IF k < cidrMaxPrefixLen
       /\ start % (2 ^ (k + 1)) = 0
       /\ start + 2 ^ (k + 1) <= end
    THEN BlockBits(start, end, k + 1)
    ELSE k

\* Range.CIDRs: the CIDR-aligned blocks covering the range, ascending.
RECURSIVE RangeCIDRs(_, _)
RangeCIDRs(start, end) ==
    IF start >= end THEN << >>
    ELSE LET k == BlockBits(start, end, 0)
         IN  << [Addr |-> start, PrefixLen |-> cidrMaxPrefixLen - k] >>
             \o RangeCIDRs(start + 2 ^ k, end)

\* address.NewCIDRs
RECURSIVE NewCIDRs(_)
NewCIDRs(ranges) ==
    IF ranges = << >> THEN << >>
    ELSE RangeCIDRs(ranges[1].Start, ranges[1].End) \o NewCIDRs(Tail(ranges))

\* CIDR.End: first address after the block.
End(cidr) == cidr.Addr + 2 ^ (cidrMaxPrefixLen - cidr.PrefixLen)

\* CIDR.Equal
Equal(c, d) == c.Addr = d.Addr /\ c.PrefixLen = d.PrefixLen

\* CIDR.String: "addr/prefixlen", the key handed to the backends.  An
\* address is written as one decimal number.
String(cidr) == ToString(cidr.Addr) \o "/" \o ToString(cidr.PrefixLen)

\* --------------------------------------------------------------- helpers
\* The character of s at position k.
CharAt(s, k) == SubSeq(s, k, k)

DigitVal(c) ==
    CASE c = "0" -> 0 [] c = "1" -> 1 [] c = "2" -> 2 [] c = "3" -> 3
      [] c = "4" -> 4 [] c = "5" -> 5 [] c = "6" -> 6 [] c = "7" -> 7
      [] c = "8" -> 8 [] c = "9" -> 9 [] OTHER -> -1

\* Decimal number written in s from position k on; -1 when s has a
\* character that is no digit.
RECURSIVE AtoiLoop(_, _, _)
AtoiLoop(s, k, n) ==
    IF k > Len(s) THEN n
    ELSE LET d == DigitVal(CharAt(s, k))
         IN  IF d < 0 THEN -1 ELSE AtoiLoop(s, k + 1, 10 * n + d)

Atoi(s) == IF Len(s) = 0 THEN -1 ELSE AtoiLoop(s, 1, 0)

\* Position of the first "/" of s from k on; 0 when there is none.
RECURSIVE SlashIndex(_, _)
SlashIndex(s, k) ==
    IF k > Len(s) THEN 0
    ELSE IF CharAt(s, k) = "/" THEN k ELSE SlashIndex(s, k + 1)

ParseErr == "invalid CIDR address"

\* net.ParseCIDR: the address written in s, and the network it lies in
\* (the address with the host bits cleared, and the prefix length).
ParseCIDR(s) ==
    LET sl == SlashIndex(s, 1)
        a == IF sl = 0 THEN -1 ELSE Atoi(SubSeq(s, 1, sl - 1))
        n == IF sl = 0 THEN -1 ELSE Atoi(SubSeq(s, sl + 1, Len(s)))
    IN  IF sl = 0 \/ a < 0 \/ n < 0 \/ n > cidrMaxPrefixLen
        THEN [ip |-> -1, ipnet |-> [IP |-> -1, Mask |-> -1], err |-> ParseErr]
        ELSE [ip |-> a,
              ipnet |-> [IP |-> a - (a % (2 ^ (cidrMaxPrefixLen - n))),
                         Mask |-> n],
              err |-> "nil"]

\* parseCIDR: net.ParseCIDR, then the IP of the network is set to the
\* address that was written in the string.
parseCIDR(s) ==
    LET r == ParseCIDR(s)
    IN  IF r.err # "nil"
        THEN [net |-> r.ipnet, err |-> r.err]
        ELSE [net |-> [r.ipnet EXCEPT !.IP = r.ip], err |-> "nil"]

\* The merge without the two appends that follow the loop.
RECURSIVE removeCommonLoopNoTail(_, _, _, _, _, _)
removeCommonLoopNoTail(a, b, ia, jb, newA, newB) ==
    IF ia <= Len(a) /\ jb <= Len(b)
    THEN IF Equal(a[ia], b[jb])
         THEN removeCommonLoopNoTail(a, b, ia + 1, jb + 1, newA, newB)
         ELSE IF End(a[ia]) < End(b[jb])
         THEN removeCommonLoopNoTail(a, b, ia + 1, jb, Append(newA, a[ia]), newB)
         ELSE removeCommonLoopNoTail(a, b, ia, jb + 1, newA, Append(newB, b[jb]))
    ELSE [newA |-> newA, newB |-> newB]

\* removeCommon that puts each range only in a at the front of newA.
RECURSIVE removeCommonLoopPrepends(_, _, _, _, _, _)
removeCommonLoopPrepends(a, b, ia, jb, newA, newB) ==
    IF ia <= Len(a) /\ jb <= Len(b)
    THEN IF Equal(a[ia], b[jb])
         THEN removeCommonLoopPrepends(a, b, ia + 1, jb + 1, newA, newB)
         ELSE IF End(a[ia]) < End(b[jb])
         THEN removeCommonLoopPrepends(a, b, ia + 1, jb, << a[ia] >> \o newA, newB)
         ELSE removeCommonLoopPrepends(a, b, ia, jb + 1, newA, Append(newB, b[jb]))
    ELSE [newA |-> SubSeq(a, ia, Len(a)) \o newA,
          newB |-> newB \o SubSeq(b, jb, Len(b))]

\* removeCommon: two-pointer merge over a and b (1-based indices).
RECURSIVE removeCommonLoop(_, _, _, _, _, _)
removeCommonLoop(a, b, ia, jb, newA, newB) ==
    IF ia <= Len(a) /\ jb <= Len(b)
    THEN IF Equal(a[ia], b[jb])
         THEN removeCommonLoop(a, b, ia + 1, jb + 1, newA, newB)
         ELSE IF End(a[ia]) < End(b[jb])
         THEN removeCommonLoop(a, b, ia + 1, jb, Append(newA, a[ia]), newB)
         ELSE removeCommonLoop(a, b, ia, jb + 1, newA, Append(newB, b[jb]))
    ELSE [newA |-> newA \o SubSeq(a, ia, Len(a)),
          newB |-> newB \o SubSeq(b, jb, Len(b))]

\* removeCommon that filters nothing out.
removeCommonKeepsAll(a, b) == [newA |-> a, newB |-> b]

removeCommon(a, b) == removeCommonLoop(a, b, 1, 1, << >>, << >>)


\* fmt.Errorf("<what> failed: %s", err)
Errorf(what, cause) == what \o " failed: " \o cause

\* ------------------------------------------------------ routing backends
\* Errors the two backends can report.
CloudErr == "ec2 request failed"
HostErr == "netlink request failed"

\* The failures a backend may meet during one call.
CloudFaults == IF healthy THEN {"nil"} ELSE {"nil", CloudErr}
HostFaults == IF healthy THEN {"nil"} ELSE {"nil", HostErr}

\* A backend call: the table after it and the error it reports.  fault is
\* the failure the backend meets during the call ("nil" for none); a failed
\* call leaves the table as it was.  Adding a route that is present and
\* removing one that is absent succeed and change nothing.

\* ec2.CreateRoute that reports a route that is already there.
CreateRouteRejectsExisting(table, dest, fault) ==
    IF fault # "nil" THEN [table |-> table, err |-> fault]
    ELSE IF dest \in table THEN [table |-> table, err |-> "RouteAlreadyExists"]
    ELSE [table |-> table \cup {dest}, err |-> "nil"]

\* ec2.CreateRoute on the VPC route table.
CreateRoute(table, dest, fault) ==
    IF fault # "nil" THEN [table |-> table, err |-> fault]
    ELSE [table |-> table \cup {dest}, err |-> "nil"]

\* ec2.DeleteRoute on the VPC route table.
DeleteRoute(table, dest, fault) ==
    IF fault # "nil" THEN [table |-> table, err |-> fault]
    ELSE [table |-> table \ {dest}, err |-> "nil"]

\* netlink.RouteAdd on the host route table.
RouteAdd(table, dst, fault) ==
    IF fault # "nil" THEN [table |-> table, err |-> fault]
    ELSE [table |-> table \cup {dst}, err |-> "nil"]

\* netlink.RouteDel on the host route table.
RouteDel(table, dst, fault) ==
    IF fault # "nil" THEN [table |-> table, err |-> fault]
    ELSE [table |-> table \ {dst}, err |-> "nil"]

\* ------------------------------------------------- tracker route methods
createVPCRoute(table, cidr, fault) == CreateRoute(table, cidr, fault)

deleteVPCRoute(table, cidr, fault) == DeleteRoute(table, cidr, fault)

\* createHostRoute that does not look at the error of parseCIDR.
createHostRouteNoParseCheck(table, cidr, fault) ==
    RouteAdd(table, parseCIDR(cidr).net, fault)

\* createHostRoute / deleteHostRoute: a string that does not parse reaches
\* no backend.
createHostRoute(table, cidr, fault) ==
    LET p == parseCIDR(cidr)
    IN  IF p.err # "nil"
        THEN [table |-> table, err |-> p.err]
        ELSE RouteAdd(table, p.net, fault)

deleteHostRoute(table, cidr, fault) ==
    LET p == parseCIDR(cidr)
    IN  IF p.err # "nil"
        THEN [table |-> table, err |-> p.err]
        ELSE RouteDel(table, p.net, fault)

\* ----------------------------------------------------------- HandleUpdate
\* Where HandleUpdate goes next: position, loop index, returned error.
Returned(k, e) == [pc |-> "returned", i |-> k, err |-> e]

\* The remove loop stopping one entry early.
RemoveNextStopsEarly(pr, k) ==
    IF k < Len(pr)
    THEN [pc |-> "deleteVPCRoute", i |-> k, err |-> "nil"]
    ELSE Returned(k, "nil")

\* Head of the "remove obsolete entries" loop at index k.
RemoveNext(pr, k) ==
    IF k <= Len(pr)
    THEN [pc |-> "deleteVPCRoute", i |-> k, err |-> "nil"]
    ELSE Returned(k, "nil")

\* The add loop going to the host table first.
AddNextHostFirst(cu, pr, k) ==
    IF k <= Len(cu)
    THEN [pc |-> "createHostRoute", i |-> k, err |-> "nil"]
    ELSE RemoveNext(pr, 1)

\* The add loop stopping one entry early.
AddNextStopsEarly(cu, pr, k) ==
    IF k < Len(cu)
    THEN [pc |-> "createVPCRoute", i |-> k, err |-> "nil"]
    ELSE RemoveNext(pr, 1)

\* Head of the "add new entries" loop at index k.
AddNext(cu, pr, k) ==
    IF k <= Len(cu)
    THEN [pc |-> "createVPCRoute", i |-> k, err |-> "nil"]
    ELSE RemoveNext(pr, 1)

\* After createVPCRoute returned e for curr[k].
AfterCreateVPC(e, k) ==
    IF e # "nil"
    THEN Returned(k, Errorf("createVPCRoutes", e))
    ELSE [pc |-> "createHostRoute", i |-> k, err |-> "nil"]

\* The error of createHostRoute dropped.
AfterCreateHostIgnoresErr(e, cu, pr, k) == AddNext(cu, pr, k + 1)

\* After createHostRoute returned e for curr[k].
AfterCreateHost(e, cu, pr, k) ==
    IF e # "nil"
    THEN Returned(k, Errorf("createHostRoute", e))
    ELSE AddNext(cu, pr, k + 1)

\* The error of deleteVPCRoute dropped.
AfterDeleteVPCIgnoresErr(e, k) ==
    [pc |-> "deleteHostRoute", i |-> k, err |-> "nil"]

\* After deleteVPCRoute returned e for prev[k].
AfterDeleteVPC(e, k) ==
    IF e # "nil"
    THEN Returned(k, Errorf("deleteVPCRoute", e))
    ELSE [pc |-> "deleteHostRoute", i |-> k, err |-> "nil"]

\* deleteHostRoute failures reported under the name of deleteVPCRoute.
AfterDeleteHostWrongName(e, pr, k) ==
    IF e # "nil"
    THEN Returned(k, Errorf("deleteVPCRoute", e))
    ELSE RemoveNext(pr, k + 1)

\* After deleteHostRoute returned e for prev[k].
AfterDeleteHost(e, pr, k) ==
    IF e # "nil"
    THEN Returned(k, Errorf("deleteHostRoute", e))
    ELSE RemoveNext(pr, k + 1)

Goto(next) ==
    /\ pc' = next.pc
    /\ i' = next.i
    /\ err' = next.err

Issue(op, cidr, e) ==
    issued' = Append(issued, [op |-> op, cidr |-> cidr, res |-> e])

\* An entry that adds the diff to what the last invocation left in prev and
\* curr.
EnterKeepsLists(p, c, h, att) ==
    LET d == removeCommon(NewCIDRs(p), NewCIDRs(c))
    IN  /\ prevRanges' = p
        /\ currRanges' = c
        /\ prev' = prev \o d.newA
        /\ curr' = curr \o d.newB
        /\ Goto(AddNext(curr \o d.newB, prev \o d.newA, 1))
        /\ issued' = << >>
        /\ cloud0' = cloud
        /\ host0' = host
        /\ healthy' = h
        /\ retrying' = att
        /\ UNCHANGED <<cloud, host, tracker, rc, hp>>

\* Entry of HandleUpdate(p, c): the diff, then the head of the add loop.
Enter(p, c, h, att) ==
    LET d == removeCommon(NewCIDRs(p), NewCIDRs(c))
    IN  /\ prevRanges' = p
        /\ currRanges' = c
        /\ prev' = d.newA
        /\ curr' = d.newB
        /\ Goto(AddNext(d.newB, d.newA, 1))
        /\ issued' = << >>
        /\ cloud0' = cloud
        /\ host0' = host
        /\ healthy' = h
        /\ retrying' = att
        /\ UNCHANGED <<cloud, host, tracker, rc, hp>>

\* The caller passes what it owned before and what it owns now.
Call(c, h) ==
    /\ pc = "idle"
    /\ Enter(currRanges, c, h, FALSE)

\* The caller takes a success: what it passed as current is what it will
\* pass as previous; nothing of the invocation is kept.
Complete ==
    /\ pc = "returned"
    /\ err = "nil"
    /\ pc' = "idle"
    /\ prevRanges' = << >>
    /\ prev' = << >>
    /\ curr' = << >>
    /\ i' = 1
    /\ issued' = << >>
    /\ cloud0' = {}
    /\ host0' = {}
    /\ healthy' = TRUE
    /\ retrying' = FALSE
    /\ UNCHANGED <<cloud, host, currRanges, err, tracker, rc, hp>>

\* After a failure the caller calls again with the same arguments.
Retry(h) ==
    /\ pc = "returned"
    /\ err # "nil"
    /\ Enter(prevRanges, currRanges, h, TRUE)

Frame == UNCHANGED <<prevRanges, currRanges, prev, curr, cloud0, host0,
                     healthy, retrying, tracker, rc, hp>>

CreateVPCRouteStep ==
    /\ pc = "createVPCRoute"
    /\ \E f \in CloudFaults :
         LET cidrStr == String(curr[i])
             r == createVPCRoute(cloud, cidrStr, f)
         IN  /\ cloud' = r.table
             /\ Issue("createVPCRoute", cidrStr, r.err)
             /\ Goto(AfterCreateVPC(r.err, i))
    /\ UNCHANGED host
    /\ Frame

CreateHostRouteStep ==
    /\ pc = "createHostRoute"
    /\ \E f \in HostFaults :
         LET cidrStr == String(curr[i])
             r == createHostRoute(host, cidrStr, f)
         IN  /\ host' = r.table
             /\ Issue("createHostRoute", cidrStr, r.err)
             /\ Goto(AfterCreateHost(r.err, curr, prev, i))
    /\ UNCHANGED cloud
    /\ Frame

DeleteVPCRouteStep ==
    /\ pc = "deleteVPCRoute"
    /\ \E f \in CloudFaults :
         LET cidrStr == String(prev[i])
             r == deleteVPCRoute(cloud, cidrStr, f)
         IN  /\ cloud' = r.table
             /\ Issue("deleteVPCRoute", cidrStr, r.err)
             /\ Goto(AfterDeleteVPC(r.err, i))
    /\ UNCHANGED host
    /\ Frame

DeleteHostRouteStep ==
    /\ pc = "deleteHostRoute"
    /\ \E f \in HostFaults :
         LET cidrStr == String(prev[i])
             r == deleteHostRoute(host, cidrStr, f)
         IN  /\ host' = r.table
             /\ Issue("deleteHostRoute", cidrStr, r.err)
             /\ Goto(AfterDeleteHost(r.err, prev, i))
    /\ UNCHANGED cloud
    /\ Frame

\* The tracker NewAWSVPCTracker returns.
NewAWSVPCTracker ==
    [instanceID |-> "i-0", routeTableID |-> "rtb-0", linkIndex |-> 1]

\* No run of removeCommon on its own, no host route call on its own.
NoRun == [pc |-> "none"]

\* After NewAWSVPCTracker: nothing owned, no route of this peer in a table.
TrackerInit ==
    /\ cloud = {}
    /\ host = {}
    /\ prevRanges = << >>
    /\ currRanges = << >>
    /\ prev = << >>
    /\ curr = << >>
    /\ i = 1
    /\ pc = "idle"
    /\ err = "nil"
    /\ issued = << >>
    /\ cloud0 = {}
    /\ host0 = {}
    /\ healthy = TRUE
    /\ retrying = FALSE
    /\ tracker = NewAWSVPCTracker

Init ==
    /\ TrackerInit
    /\ rc = NoRun
    /\ hp = NoRun

Next ==
    \/ \E c \in RangeSets, h \in BOOLEAN : Call(c, h)
    \/ Complete
    \/ \E h \in BOOLEAN : Retry(h)
    \/ CreateVPCRouteStep
    \/ CreateHostRouteStep
    \/ DeleteVPCRouteStep
    \/ DeleteHostRouteStep

Spec == Init /\ [][Next]_vars

\* Calls one after the other, each passing as previous what the call before
\* it passed as current; a call that fails is the last.
NextSequential ==
    \/ \E c \in RangeSets, h \in BOOLEAN : Call(c, h)
    \/ Complete
    \/ CreateVPCRouteStep
    \/ CreateHostRouteStep
    \/ DeleteVPCRouteStep
    \/ DeleteHostRouteStep

SpecSequential == Init /\ [][NextSequential]_vars

\* ------------------------------------------- a host route call on its own
\* Every CIDR the ranges of the model split into.
AllCIDRs ==
    UNION { { RangeCIDRs(r.Start, r.End)[k] :
                k \in 1..Len(RangeCIDRs(r.Start, r.End)) } :
            r \in { q \in Range : ValidRange(q) } }

\* The strings CIDR.String produces.
CanonicalStrings == { String(c) : c \in AllCIDRs }

\* Well-formed strings CIDR.String does not produce: host bits set.
HostBitStrings == { "1/31", "3/31", "1/30", "3/30" }

\* Strings that are no address/prefix pair.
MalformedStrings ==
    { "", "0", "/32", "0/", "0/33", "x/32", "0/3x", "0 /32", "0/32/1", "0.32" }

HostTables == {{}} \cup { {parseCIDR(s).net} : s \in CanonicalStrings }

HostCalls ==
    [ pc : {"call"},
      op : {"createHostRoute", "deleteHostRoute"},
      cidr : CanonicalStrings \cup HostBitStrings \cup MalformedStrings,
      table : HostTables,
      fault : {"nil", HostErr} ]

\* The call is made: res is the table after it and the error it returns.
HostCallStep ==
    /\ hp.pc = "call"
    /\ hp' = [ pc |-> "done", op |-> hp.op, cidr |-> hp.cidr,
               table |-> hp.table, fault |-> hp.fault,
               res |-> IF hp.op = "createHostRoute"
                       THEN createHostRoute(hp.table, hp.cidr, hp.fault)
                       ELSE deleteHostRoute(hp.table, hp.cidr, hp.fault) ]
    /\ UNCHANGED <<cloud, host, prevRanges, currRanges, prev, curr, i, pc,
                   err, issued, cloud0, host0, healthy, retrying, tracker, rc>>

InitHostCall ==
    /\ TrackerInit
    /\ rc = NoRun
    /\ hp \in HostCalls

SpecHostCall == InitHostCall /\ [][HostCallStep]_vars

TypeOK ==
    /\ pc \in {"idle", "createVPCRoute", "createHostRoute",
               "deleteVPCRoute", "deleteHostRoute", "returned"}
    /\ prevRanges \in RangeSets
    /\ currRanges \in RangeSets
    /\ retrying \in BOOLEAN

\* --------------------------------------------- removeCommon on its own
\* Lists of CIDRs in any order, with repeats and overlaps.
CIDRLists == UNION { [1..n -> AllCIDRs] : n \in 0..MaxListLen }

\* The third case of the loop not advancing j.
removeCommonIterStuck(st) ==
    IF Equal(st.a[st.i], st.b[st.j])
    THEN [st EXCEPT !.i = st.i + 1, !.j = st.j + 1]
    ELSE IF End(st.a[st.i]) < End(st.b[st.j])
    THEN [st EXCEPT !.newA = Append(st.newA, st.a[st.i]), !.i = st.i + 1]
    ELSE [st EXCEPT !.newB = Append(st.newB, st.b[st.j])]

\* One iteration of the loop of removeCommon, i and j being 1-based.
removeCommonIter(st) ==
    IF Equal(st.a[st.i], st.b[st.j])
    THEN [st EXCEPT !.i = st.i + 1, !.j = st.j + 1]
    ELSE IF End(st.a[st.i]) < End(st.b[st.j])
    THEN [st EXCEPT !.newA = Append(st.newA, st.a[st.i]), !.i = st.i + 1]
    ELSE [st EXCEPT !.newB = Append(st.newB, st.b[st.j]), !.j = st.j + 1]

\* The two appends after the loop, dropping what remains of b.
removeCommonRestOnlyA(st) ==
    [st EXCEPT !.newA = st.newA \o SubSeq(st.a, st.i, Len(st.a)),
               !.pc = "done"]

\* The two appends after the loop, and the return.
removeCommonRest(st) ==
    [st EXCEPT !.newA = st.newA \o SubSeq(st.a, st.i, Len(st.a)),
               !.newB = st.newB \o SubSeq(st.b, st.j, Len(st.b)),
               !.pc = "done"]

LoopCond(st) == st.i <= Len(st.a) /\ st.j <= Len(st.b)

OutsideRun ==
    UNCHANGED <<cloud, host, prevRanges, currRanges, prev, curr, i, pc, err,
                issued, cloud0, host0, healthy, retrying, tracker, hp>>

\* iters counts the iterations; pi and pj are i and j before the last one.
DiffIterate ==
    /\ rc.pc = "loop"
    /\ LoopCond(rc)
    /\ rc' = [removeCommonIter(rc) EXCEPT !.iters = rc.iters + 1,
                                          !.pi = rc.i, !.pj = rc.j]
    /\ OutsideRun

DiffReturn ==
    /\ rc.pc = "loop"
    /\ ~LoopCond(rc)
    /\ rc' = removeCommonRest(rc)
    /\ OutsideRun

InitDiff ==
    /\ TrackerInit
    /\ hp = NoRun
    /\ \E a \in CIDRLists, b \in CIDRLists :
         rc = [pc |-> "loop", a |-> a, b |-> b, i |-> 1, j |-> 1,
               newA |-> << >>, newB |-> << >>, iters |-> 0, pi |-> 1, pj |-> 1]

NextDiff == DiffIterate \/ DiffReturn

SpecDiff == InitDiff /\ [][NextDiff]_vars

\* ------------------------------------------------------------ properties
Elems(seq) == { seq[k] : k \in 1..Len(seq) }

\* The CIDR lists HandleUpdate diffs.
PrevCIDRs == NewCIDRs(prevRanges)
CurrCIDRs == NewCIDRs(currRanges)
Common == Elems(PrevCIDRs) \cap Elems(CurrCIDRs)

\* net.IPNet.String: the destination of a host route, written as a key.
IPNetString(n) == ToString(n.IP) \o "/" \o ToString(n.Mask)

\* Route keys of a list of CIDRs, and the keys a host table holds.
Routes(cidrs) == { String(c) : c \in Elems(cidrs) }
HostKeys(table) == { IPNetString(n) : n \in table }

AddOps == {"createVPCRoute", "createHostRoute"}
RemoveOps == {"deleteVPCRoute", "deleteHostRoute"}

\* The invocation in flight was entered with both tables holding exactly
\* the routes of prevRanges.
EnteredAtPrev ==
    /\ cloud0 = Routes(PrevCIDRs)
    /\ HostKeys(host0) = Routes(PrevCIDRs)

Failed == pc = "returned" /\ err # "nil"
Succeeded == pc = "returned" /\ err = "nil"

IssuedOk(op, cidr, before) ==
    \E m \in 1..(before - 1) :
        issued[m] = [op |-> op, cidr |-> cidr, res |-> "nil"]

\* C1: no remove operation is issued before the cloud add and the host add
\* of every range of the added list have been issued and have succeeded.
C1_AddsBeforeRemoves ==
    \A k \in 1..Len(issued) :
        issued[k].op \in RemoveOps =>
            /\ \A n \in 1..Len(curr) :
                  /\ IssuedOk("createVPCRoute", String(curr[n]), k)
                  /\ IssuedOk("createHostRoute", String(curr[n]), k)
            /\ \A m \in k..Len(issued) : issued[m].op \in RemoveOps

C1_Witness ==
    /\ Len(curr) >= 2
    /\ \E k \in 1..Len(issued) : issued[k].op = "deleteHostRoute"

\* C2: entered with both tables at the routes of prev, HandleUpdate keeps,
\* at every step and when it returns (with or without an error), a cloud
\* route and a host route for every range that is in both prev and curr.
C2_CommonStaysRouted ==
    (pc # "idle" /\ EnteredAtPrev) =>
        \A c \in Common :
            /\ String(c) \in cloud
            /\ String(c) \in HostKeys(host)

C2_Witness ==
    /\ Failed
    /\ EnteredAtPrev
    /\ Common # {}
    /\ \E k \in 1..Len(issued) : issued[k].op = "deleteVPCRoute"

\* The operations HandleUpdate intends, in order: cloud add then host add
\* for each added range, then cloud remove then host remove for each
\* removed range.
PlanOf(cidrs, cloudOp, hostOp) ==
    [ n \in 1..(2 * Len(cidrs)) |->
        IF n % 2 = 1
        THEN [op |-> cloudOp, cidr |-> String(cidrs[(n + 1) \div 2])]
        ELSE [op |-> hostOp, cidr |-> String(cidrs[n \div 2])] ]

AddPlan == PlanOf(curr, "createVPCRoute", "createHostRoute")
RemovePlan == PlanOf(prev, "deleteVPCRoute", "deleteHostRoute")
Plan == AddPlan \o RemovePlan

\* What was issued so far, without the results.
IssuedOps == [ n \in 1..Len(issued) |->
                 [op |-> issued[n].op, cidr |-> issued[n].cidr] ]

TimesIssued(o) == Cardinality({ m \in 1..Len(issued) : IssuedOps[m] = o })

\* C3: when the k-th add-phase operation fails, operations 1..k-1 have
\* each been issued exactly once (and succeeded), nothing is issued after
\* the k-th, in particular no remove, and HandleUpdate returns an error.
C3_AddFailureAborts ==
    \A k \in 1..Len(issued) :
        (issued[k].op \in AddOps /\ issued[k].res # "nil") =>
            /\ k = Len(issued)
            /\ Failed
            /\ k <= Len(AddPlan)
            /\ IssuedOps = SubSeq(AddPlan, 1, k)
            /\ \A m \in 1..(k - 1) :
                 issued[m].res = "nil" /\ TimesIssued(AddPlan[m]) = 1
            /\ \A m \in 1..Len(issued) : issued[m].op \notin RemoveOps

C3_Witness ==
    /\ Failed
    /\ prev # << >>
    /\ Len(issued) = 3
    /\ issued[3].op = "createVPCRoute"
    /\ issued[3].res # "nil"

\* C4: entered with both tables at the routes of prev, a HandleUpdate that
\* returns success leaves each table holding exactly the routes of curr.
C4_SuccessReachesCurr ==
    (Succeeded /\ EnteredAtPrev) =>
        /\ cloud = Routes(CurrCIDRs)
        /\ HostKeys(host) = Routes(CurrCIDRs)

C4_Witness ==
    /\ Succeeded
    /\ EnteredAtPrev
    /\ Len(prev) >= 2
    /\ curr # << >>
    /\ Common # {}

\* C5: removeCommon(A, B) on sorted, non-overlapping A and B returns in
\* onlyPrev exactly the elements of A not in B and in onlyCurr exactly the
\* elements of B not in A, each once; the outputs are disjoint from each
\* other and from the common elements, and with the common elements they
\* make up A and B.
C5_DiffIsSetDifference ==
    LET d == removeCommon(PrevCIDRs, CurrCIDRs)
        onlyPrev == Elems(d.newA)
        onlyCurr == Elems(d.newB)
    IN  /\ onlyPrev = Elems(PrevCIDRs) \ Elems(CurrCIDRs)
        /\ onlyCurr = Elems(CurrCIDRs) \ Elems(PrevCIDRs)
        /\ Len(d.newA) = Cardinality(onlyPrev)
        /\ Len(d.newB) = Cardinality(onlyCurr)
        /\ onlyPrev \cap onlyCurr = {}
        /\ onlyPrev \cap Common = {}
        /\ onlyCurr \cap Common = {}
        /\ onlyPrev \cup Common = Elems(PrevCIDRs)
        /\ onlyCurr \cup Common = Elems(CurrCIDRs)
        /\ (pc # "idle" => (prev = d.newA /\ curr = d.newB))

C5_Witness ==
    /\ pc # "idle"
    /\ Common # {}
    /\ prev # << >>
    /\ curr # << >>

\* TRUE when sub occurs in the text s.
Contains(s, sub) ==
    \E k \in 1..(Len(s) - Len(sub) + 1) : SubSeq(s, k, k + Len(sub) - 1) = sub

\* The operation HandleUpdate issued last.
LastIssued == issued[Len(issued)]

\* The name under which HandleUpdate reports a failure of each operation.
ReportedAs(op) ==
    CASE op = "createVPCRoute" -> "createVPCRoutes"
      [] op = "createHostRoute" -> "createHostRoute"
      [] op = "deleteVPCRoute" -> "deleteVPCRoute"
      [] op = "deleteHostRoute" -> "deleteHostRoute"

C7_RetrySucceeds ==
    (retrying /\ healthy) =>
        /\ \A k \in 1..Len(issued) : issued[k].res = "nil"
        /\ pc = "returned" =>
             /\ err = "nil"
             /\ cloud = Routes(CurrCIDRs)
             /\ HostKeys(host) = Routes(CurrCIDRs)

C7_Witness ==
    /\ retrying
    /\ healthy
    /\ Succeeded
    /\ \E k \in 1..Len(issued) :
         issued[k].op = "createVPCRoute" /\ issued[k].cidr \in cloud0
    /\ \E k \in 1..Len(issued) :
         issued[k].op = "deleteVPCRoute" /\ issued[k].cidr \notin cloud0

\* The cloud table and the keys of the host table after the operations ops
\* have all succeeded, in order.
RECURSIVE CloudAfter(_, _)
CloudAfter(table, ops) ==
    IF ops = << >> THEN table
    ELSE CloudAfter(
           CASE ops[1].op = "createVPCRoute" -> table \cup {ops[1].cidr}
             [] ops[1].op = "deleteVPCRoute" -> table \ {ops[1].cidr}
             [] OTHER -> table,
           Tail(ops))

RECURSIVE HostKeysAfter(_, _)
HostKeysAfter(keys, ops) ==
    IF ops = << >> THEN keys
    ELSE HostKeysAfter(
           CASE ops[1].op = "createHostRoute" -> keys \cup {ops[1].cidr}
             [] ops[1].op = "deleteHostRoute" -> keys \ {ops[1].cidr}
             [] OTHER -> keys,
           Tail(ops))

\* C8: when the k-th remove-phase operation fails, every add and the
\* removes before it have been applied and stay applied, nothing is issued
\* after it, and the tables are those the operations before the failing
\* one produce from the tables HandleUpdate was entered with.
C8_RemoveFailureKeepsPrefix ==
    \A k \in 1..Len(issued) :
        (issued[k].op \in RemoveOps /\ issued[k].res # "nil") =>
            /\ k = Len(issued)
            /\ Failed
            /\ k > Len(AddPlan)
            /\ IssuedOps = SubSeq(Plan, 1, k)
            /\ \A m \in 1..(k - 1) : issued[m].res = "nil"
            /\ cloud = CloudAfter(cloud0, SubSeq(Plan, 1, k - 1))
            /\ HostKeys(host) =
                 HostKeysAfter(HostKeys(host0), SubSeq(Plan, 1, k - 1))

C8_Witness ==
    /\ Failed
    /\ curr # << >>
    /\ Len(issued) >= 4
    /\ LastIssued.op = "deleteVPCRoute"
    /\ \E m \in 1..Len(issued) : issued[m].op = "deleteHostRoute"

\* C9: when prev and curr are the same, removeCommon returns two empty
\* lists and HandleUpdate issues no backend call and returns success.
C9_EmptyDiffNoCalls ==
    (pc # "idle" /\ PrevCIDRs = CurrCIDRs) =>
        /\ removeCommon(PrevCIDRs, CurrCIDRs) = [newA |-> << >>, newB |-> << >>]
        /\ prev = << >>
        /\ curr = << >>
        /\ issued = << >>
        /\ Succeeded
        /\ cloud = cloud0
        /\ host = host0

C9_Witness ==
    /\ pc = "returned"
    /\ prevRanges = currRanges
    /\ Len(currRanges) = 2
    /\ ~healthy

\* C10: for each range the cloud operation is issued first and the host
\* operation next, with the same range string, in both phases, and the
\* host operation of a range comes before any operation of the next
\* range; when the host add of a range fails, its cloud add has been
\* issued exactly once and has succeeded.
C10_CloudThenHostPerRange ==
    \A k \in 1..Len(issued) :
        /\ issued[k].op = "createHostRoute" =>
             /\ k > 1
             /\ issued[k - 1] = [op |-> "createVPCRoute",
                                 cidr |-> issued[k].cidr, res |-> "nil"]
        /\ issued[k].op = "deleteHostRoute" =>
             /\ k > 1
             /\ issued[k - 1] = [op |-> "deleteVPCRoute",
                                 cidr |-> issued[k].cidr, res |-> "nil"]
        /\ (issued[k].op \in {"createVPCRoute", "deleteVPCRoute"} /\ k > 1) =>
             /\ issued[k - 1].op \in {"createHostRoute", "deleteHostRoute"}
             /\ issued[k - 1].res = "nil"
             /\ issued[k - 1].cidr # issued[k].cidr
        /\ (issued[k].op = "createHostRoute" /\ issued[k].res # "nil") =>
             TimesIssued([op |-> "createVPCRoute", cidr |-> issued[k].cidr]) = 1
        /\ (k = 1) => issued[k].op \in {"createVPCRoute", "deleteVPCRoute"}

C10_Witness ==
    /\ Failed
    /\ Len(issued) = 4
    /\ LastIssued.op = "createHostRoute"

\* C11: with an empty prev removeCommon returns all of curr, in order, as
\* onlyCurr and nothing as onlyPrev, and HandleUpdate issues adds only;
\* with an empty curr it returns all of prev, in order, as onlyPrev and
\* nothing as onlyCurr, and HandleUpdate issues removes only.
C11_BootstrapAndTeardown ==
    pc # "idle" =>
        /\ PrevCIDRs = << >> =>
             /\ removeCommon(PrevCIDRs, CurrCIDRs) =
                  [newA |-> << >>, newB |-> CurrCIDRs]
             /\ prev = << >>
             /\ curr = CurrCIDRs
             /\ \A k \in 1..Len(issued) : issued[k].op \in AddOps
        /\ CurrCIDRs = << >> =>
             /\ removeCommon(PrevCIDRs, CurrCIDRs) =
                  [newA |-> PrevCIDRs, newB |-> << >>]
             /\ prev = PrevCIDRs
             /\ curr = << >>
             /\ \A k \in 1..Len(issued) : issued[k].op \in RemoveOps

C11_Witness ==
    /\ Succeeded
    /\ currRanges = << >>
    /\ Len(prev) >= 2
    /\ Len(issued) = 2 * Len(prev)

\* The operations the arguments of the invocation in flight call for.
ArgPlan ==
    LET d == removeCommon(PrevCIDRs, CurrCIDRs)
    IN  PlanOf(d.newB, "createVPCRoute", "createHostRoute")
        \o PlanOf(d.newA, "deleteVPCRoute", "deleteHostRoute")

InLoops == {"createVPCRoute", "createHostRoute",
            "deleteVPCRoute", "deleteHostRoute"}

\* C12: HandleUpdate changes neither the fields of the tracker nor its
\* arguments, and what it issues is decided by the arguments of the call
\* and the results of the backends alone: the operations the arguments
\* call for, in order, up to the first that fails.
C12_NoStateBetweenCalls ==
    /\ [][ /\ tracker' = tracker
           /\ pc \in InLoops =>
                (prevRanges' = prevRanges /\ currRanges' = currRanges) ]_vars
    /\ [](pc # "idle" =>
            /\ tracker = NewAWSVPCTracker
            /\ Len(issued) <= Len(ArgPlan)
            /\ IssuedOps = SubSeq(ArgPlan, 1, Len(issued))
            /\ \A m \in 1..(Len(issued) - 1) : issued[m].res = "nil")

C12_Witness ==
    /\ retrying
    /\ Len(issued) >= 3
    /\ cloud0 # Routes(PrevCIDRs)

\* C13: a string CIDR.String produced parses without error and the parsed
\* network written back is the same string, so the host route is added or
\* removed for the range the string names; a string that is no
\* address/prefix pair makes the call return the parse error and leaves
\* the host table as it was.
C13_ParseRoundTrip ==
    hp.pc = "done" =>
        LET p == parseCIDR(hp.cidr)
        IN  /\ hp.cidr \in CanonicalStrings =>
                 /\ p.err = "nil"
                 /\ IPNetString(p.net) = hp.cidr
                 /\ hp.res.err = hp.fault
                 /\ hp.fault = "nil" =>
                      HostKeys(hp.res.table) =
                        IF hp.op = "createHostRoute"
                        THEN HostKeys(hp.table) \cup {hp.cidr}
                        ELSE HostKeys(hp.table) \ {hp.cidr}
            /\ hp.cidr \in MalformedStrings =>
                 /\ p.err = ParseErr
                 /\ hp.res.err = ParseErr
                 /\ hp.res.table = hp.table

C13_Witness ==
    /\ hp.pc = "done"
    /\ hp.cidr = "0/33"
    /\ hp.fault = "nil"
    /\ hp.op = "createHostRoute"
    /\ hp.table # {}

\* C14: after any sequence of successful calls made one at a time, the
\* first with the tables at its prev and each later one with the curr of
\* the call before it as prev, both tables hold exactly the routes of the
\* curr of the last call.
C14_SequenceEndsAtLastCurr ==
    /\ pc # "idle" => EnteredAtPrev
    /\ (pc = "idle" \/ Succeeded) =>
         /\ cloud = Routes(CurrCIDRs)
         /\ HostKeys(host) = Routes(CurrCIDRs)

C14_Witness ==
    /\ Succeeded
    /\ prevRanges # << >>
    /\ Len(curr) >= 2
    /\ prev # << >>
    /\ Common # {}

\* The addresses the ranges of a list cover.
AddrsOf(ranges) ==
    { x \in 0..(MaxAddr - 1) :
        \E k \in 1..Len(ranges) : ranges[k].Start <= x /\ x < ranges[k].End }

\* TRUE when the network n holds the address x.
NetHolds(n, x) == n.IP <= x /\ x < n.IP + 2 ^ (cidrMaxPrefixLen - n.Mask)

CloudCovers(x) == \E key \in cloud : NetHolds(parseCIDR(key).net, x)
HostCovers(x) == \E n \in host : NetHolds(n, x)

StillOwned == AddrsOf(prevRanges) \cap AddrsOf(currRanges)

\* C15: entered with both tables at the routes of prev, HandleUpdate keeps
\* at every step, and when it returns, a cloud route and a host route that
\* cover every address covered by prev and by curr, also when no range is
\* common to prev and curr because ranges were split, merged or resized.
C15_OwnedAddressesStayCovered ==
    (pc # "idle" /\ EnteredAtPrev) =>
        \A x \in StillOwned : CloudCovers(x) /\ HostCovers(x)

C15_Witness ==
    /\ EnteredAtPrev
    /\ Common = {}
    /\ StillOwned # {}
    /\ curr # << >>
    /\ \E k \in 1..Len(issued) :
         issued[k].op = "deleteHostRoute" /\ issued[k].res = "nil"

\* The route keys one table holds and the other does not.
TableDiff == (cloud \ HostKeys(host)) \cup (HostKeys(host) \ cloud)

EnteredInStep == cloud0 = HostKeys(host0)

\* C16: entered with equal tables, HandleUpdate keeps the two tables at
\* most one range apart, the range it is working on, with the cloud table
\* ahead (it has the route being added, it lacks the route being removed);
\* the tables are equal when HandleUpdate returns success and at most one
\* range apart when it returns an error.
C16_TablesStayInStep ==
    (pc # "idle" /\ EnteredInStep) =>
        /\ Cardinality(TableDiff) <= 1
        /\ pc \in {"createVPCRoute", "deleteVPCRoute"} => TableDiff = {}
        /\ pc = "createHostRoute" =>
             /\ TableDiff \subseteq {String(curr[i])}
             /\ HostKeys(host) \subseteq cloud
             /\ String(curr[i]) \in cloud
        /\ pc = "deleteHostRoute" =>
             /\ TableDiff \subseteq {String(prev[i])}
             /\ cloud \subseteq HostKeys(host)
             /\ String(prev[i]) \notin cloud
        /\ Succeeded => TableDiff = {}
        /\ Failed => TableDiff \subseteq {LastIssued.cidr}

C16_Witness ==
    /\ Failed
    /\ EnteredInStep
    /\ TableDiff # {}
    /\ LastIssued.op = "deleteHostRoute"
    /\ Len(curr) >= 1

\* TRUE when seq is in ascending order of end address.
AscendingEnds(seq) ==
    \A k \in 1..(Len(seq) - 1) : End(seq[k]) < End(seq[k + 1])

\* TRUE when sub is what remains of seq after dropping some elements.
RECURSIVE IsSubsequence(_, _)
IsSubsequence(sub, seq) ==
    IF sub = << >> THEN TRUE
    ELSE IF seq = << >> THEN FALSE
    ELSE IF sub[1] = seq[1] THEN IsSubsequence(Tail(sub), Tail(seq))
    ELSE IsSubsequence(sub, Tail(seq))

\* The range strings of the issued operations named op, in issue order.
RECURSIVE IssuedFor(_, _)
IssuedFor(op, k) ==
    IF k > Len(issued) THEN << >>
    ELSE (IF issued[k].op = op THEN << issued[k].cidr >> ELSE << >>)
         \o IssuedFor(op, k + 1)

StringsOf(cidrs) == [ k \in 1..Len(cidrs) |-> String(cidrs[k]) ]

IsPrefix(p, seq) == Len(p) <= Len(seq) /\ p = SubSeq(seq, 1, Len(p))

\* C17: each output of removeCommon is a subsequence of its input, so for
\* inputs in ascending order of end address both outputs are in ascending
\* order of end address, and HandleUpdate issues its adds and its removes
\* in that order.
C17_OrderPreserved ==
    pc # "idle" =>
        /\ AscendingEnds(PrevCIDRs) /\ AscendingEnds(CurrCIDRs)
        /\ IsSubsequence(prev, PrevCIDRs)
        /\ IsSubsequence(curr, CurrCIDRs)
        /\ AscendingEnds(prev)
        /\ AscendingEnds(curr)
        /\ IsPrefix(IssuedFor("createVPCRoute", 1), StringsOf(curr))
        /\ IsPrefix(IssuedFor("createHostRoute", 1), StringsOf(curr))
        /\ IsPrefix(IssuedFor("deleteVPCRoute", 1), StringsOf(prev))
        /\ IsPrefix(IssuedFor("deleteHostRoute", 1), StringsOf(prev))

C17_Witness ==
    /\ Succeeded
    /\ Len(prev) >= 2
    /\ Len(curr) >= 1
    /\ Len(prev) < Len(PrevCIDRs)

\* C18: removeCommon terminates: while the loop runs a step is always
\* possible, every iteration advances at least one of the two pointers and
\* moves neither backwards, so there are at most len(a)+len(b) iterations,
\* and each input element is looked at and emitted at most once.
C18_LoopTerminates ==
    /\ rc.pc = "loop" => ENABLED NextDiff
    /\ rc.iters <= Len(rc.a) + Len(rc.b)
    /\ rc.pi <= rc.i /\ rc.pj <= rc.j
    /\ rc.iters > 0 => rc.i + rc.j > rc.pi + rc.pj
    /\ rc.i <= Len(rc.a) + 1 /\ rc.j <= Len(rc.b) + 1
    /\ rc.pc = "loop" => /\ IsSubsequence(rc.newA, SubSeq(rc.a, 1, rc.i - 1))
                         /\ IsSubsequence(rc.newB, SubSeq(rc.b, 1, rc.j - 1))
    /\ rc.pc = "done" => /\ IsSubsequence(rc.newA, rc.a)
                         /\ IsSubsequence(rc.newB, rc.b)

C18_Witness ==
    /\ rc.pc = "done"
    /\ Len(rc.a) = 2
    /\ Len(rc.b) = 2
    /\ rc.iters = Len(rc.a) + Len(rc.b) - 1

\* C19: for any two input lists, sorted or not, removeCommon drops no change:
\* every element of a that is not in b is in newA, every element of b that
\* is not in a is in newB, newA holds only elements of a and newB only
\* elements of b.
C19_NoChangeDropped ==
    rc.pc = "done" =>
        /\ Elems(rc.a) \ Elems(rc.b) \subseteq Elems(rc.newA)
        /\ Elems(rc.b) \ Elems(rc.a) \subseteq Elems(rc.newB)
        /\ Elems(rc.newA) \subseteq Elems(rc.a)
        /\ Elems(rc.newB) \subseteq Elems(rc.b)

C19_Witness ==
    /\ rc.pc = "done"
    /\ ~AscendingEnds(rc.a)
    /\ Elems(rc.newA) \cap Elems(rc.b) # {}
    /\ Elems(rc.a) \ Elems(rc.b) # {}
    /\ Elems(rc.b) \ Elems(rc.a) # {}

====
